---- MODULE Spec2Model ----
(***************************************************************************)
(* A model of src/espn_tools.py: the helper functions over the ESPN HTTP   *)
(* API.  One call is modelled at a time: an idle caller invokes one of the *)
(* functions with arguments drawn from small sets, the function issues its *)
(* blocking HTTP requests one by one (each request and each response is a  *)
(* step of its own and is recorded in `trace`), and the call ends in       *)
(* `outcome`: a returned value or an exception propagated to the caller.   *)
(***************************************************************************)
EXTENDS Integers, Sequences, FiniteSets, TLC

VARIABLES
    pc,               \* position of the call: "idle", a waiting point, "loop", "done"
    fn,               \* the function being called, "none" when idle
    args,             \* the arguments of the call
    trace,            \* every HTTP request issued and every response/failure, in order
    json_data,        \* response.json() of the first request (schedule_data, the roster)
    recent_games,     \* get_recent_game_stats: the final games, sorted
    selected,         \* get_recent_game_stats: recent_games[:num_games], the loop's iterable
    idx,              \* get_recent_game_stats: position of the loop in `selected`
    game_stats_list,  \* get_recent_game_stats: the boxscores collected so far
    parsed,           \* positions of the events whose date went through strptime
    outcome           \* how the call ended

vars == <<pc, fn, args, trace, json_data, recent_games, selected, idx,
          game_stats_list, parsed, outcome>>

----------------------------------------------------------------------------
(* Bounds of the model. *)

MaxEvents == 3      \* events in a schedule response
MaxCount == 2       \* largest num_games argument
MaxRoster == 2      \* players in a roster handed to get_player_id

----------------------------------------------------------------------------
(* Python values.  Every value carries its type so that values of          *)
(* different Python types can be told apart.                               *)

None == [type |-> "None"]
PyInt(n) == [type |-> "int", n |-> n]
PyList(s) == [type |-> "list", items |-> s]
ErrorRecord(msg) == [type |-> "dict", error |-> msg]
Payload(tag, key) == [type |-> "dict", payload |-> tag, of |-> key]

Returned(v) == [kind |-> "return", value |-> v]
Raised(exc) == [kind |-> "raise", value |-> exc]
Running == [kind |-> "none"]

Min(a, b) == IF a <= b THEN a ELSE b
Max(a, b) == IF a >= b THEN a ELSE b

\* seq[:n + 1]: one element too many.
PySlice_OneMore(s, n) ==
    IF n >= 0 THEN SubSeq(s, 1, Min(n + 1, Len(s)))
    ELSE SubSeq(s, 1, Max(Len(s) + n, 0))

\* A count of zero taken as "no limit".
PySlice_ZeroIsAll(s, n) ==
    IF n > 0 THEN SubSeq(s, 1, Min(n, Len(s)))
    ELSE IF n = 0 THEN s
    ELSE SubSeq(s, 1, Max(Len(s) + n, 0))

\* seq[:n] of Python: a negative n counts from the end.
PySlice(s, n) ==
    IF n >= 0 THEN SubSeq(s, 1, Min(n, Len(s)))
    ELSE SubSeq(s, 1, Max(Len(s) + n, 0))

----------------------------------------------------------------------------
(* get_team_id *)

TEAM_IDS ==
    [a \in {"ARI", "ATL", "BAL", "BUF", "CAR", "CHI", "CIN", "CLE", "DAL", "DEN",
            "DET", "GB", "HOU", "IND", "JAX", "KC", "LV", "LAC", "LAR", "MIA",
            "MIN", "NE", "NO", "NYG", "NYJ", "PHI", "PIT", "SF", "SEA", "TB",
            "TEN", "WAS"} |->
        CASE a = "ARI" -> 22 [] a = "ATL" -> 1  [] a = "BAL" -> 33 [] a = "BUF" -> 2
          [] a = "CAR" -> 29 [] a = "CHI" -> 3  [] a = "CIN" -> 4  [] a = "CLE" -> 5
          [] a = "DAL" -> 6  [] a = "DEN" -> 7  [] a = "DET" -> 8  [] a = "GB"  -> 9
          [] a = "HOU" -> 34 [] a = "IND" -> 11 [] a = "JAX" -> 30 [] a = "KC"  -> 12
          [] a = "LV"  -> 13 [] a = "LAC" -> 24 [] a = "LAR" -> 14 [] a = "MIA" -> 15
          [] a = "MIN" -> 16 [] a = "NE"  -> 17 [] a = "NO"  -> 18 [] a = "NYG" -> 19
          [] a = "NYJ" -> 20 [] a = "PHI" -> 21 [] a = "PIT" -> 23 [] a = "SF"  -> 25
          [] a = "SEA" -> 26 [] a = "TB"  -> 27 [] a = "TEN" -> 10 [] a = "WAS" -> 28]

\* TEAM_IDS[team_abbreviation]: a key not in the dict raises.
get_team_id_subscript(team_abbreviation) ==
    IF team_abbreviation \in DOMAIN TEAM_IDS
    THEN Returned(PyInt(TEAM_IDS[team_abbreviation]))
    ELSE Raised("KeyError")

\* TEAM_IDS.get(team_abbreviation): the value, or None for a key not in the dict.
get_team_id(team_abbreviation) ==
    IF team_abbreviation \in DOMAIN TEAM_IDS
    THEN Returned(PyInt(TEAM_IDS[team_abbreviation]))
    ELSE Returned(None)

\* Arguments tried: every key of the table and some strings that are no key.
UnknownAbbreviations == {"", "kc", "Kc", "KAN", "XXX", "NFL", "ARI "}
Abbreviations == DOMAIN TEAM_IDS \cup UnknownAbbreviations

----------------------------------------------------------------------------
(* Dates.  A date text of the feed is modelled by its fields and by what   *)
(* follows the minutes: "Z" in the expected format.                        *)

DateText(y, mo, d, h, mi, tail) ==
    [y |-> y, mo |-> mo, d |-> d, h |-> h, mi |-> mi, tail |-> tail]

IsLeap(y) == (y % 4 = 0 /\ y % 100 # 0) \/ y % 400 = 0

DaysIn(y, mo) ==
    CASE mo \in {4, 6, 9, 11} -> 30
      [] mo = 2 -> IF IsLeap(y) THEN 29 ELSE 28
      [] OTHER -> 31

\* datetime.strptime(text, "%Y-%m-%dT%H:%MZ") succeeds iff the text ends in
\* the literal Z right after the minutes and its fields name a real date.
Parses(t) ==
    /\ t.tail = "Z"
    /\ t.mo \in 1..12
    /\ t.d \in 1..DaysIn(t.y, t.mo)
    /\ t.h \in 0..23
    /\ t.mi \in 0..59

strptime(t) == <<t.y, t.mo, t.d, t.h, t.mi>>

\* datetime < datetime: lexicographic on (year, month, day, hour, minute).
RECURSIVE LexLess(_, _, _)
LexLess(a, b, k) ==
    IF k > Len(a) THEN FALSE
    ELSE IF a[k] # b[k] THEN a[k] < b[k]
    ELSE LexLess(a, b, k + 1)

\* The year left out of the comparison.
DateLess_NoYear(a, b) == LexLess(a, b, 2)

DateLess(a, b) == LexLess(a, b, 1)

GoodDates == { DateText(2023, 12, 31, 21, 25, "Z"),
               DateText(2024, 1, 7, 18, 0, "Z"),
               DateText(2024, 1, 7, 21, 15, "Z") }
\* seconds before the Z; the 30th of February
BadDates == { DateText(2024, 1, 14, 18, 0, ":00Z"),
              DateText(2024, 2, 30, 18, 0, "Z") }

----------------------------------------------------------------------------
(* The schedule JSON.  An event is modelled by the keys it carries and the *)
(* values under them; `keys` names the keys that are present:              *)
(*   "competitions"      event['competitions'][0]                          *)
(*   "status"            game['status']                                    *)
(*   "status.type.name"  game['status']['type']['name']                    *)
(*   "date", "id"        game['date'], game['id']                          *)
(* A value under an absent key is never read.                              *)

NoDate == DateText(0, 0, 0, 0, 0, "")

Event(keys, name, date, id) == [keys |-> keys, name |-> name, date |-> date, id |-> id]

AllKeys == {"competitions", "status", "status.type.name", "date", "id"}

\* The shapes of event a schedule is built from (the id is filled in by
\* position, every event of a schedule having an id of its own).
EventShapes ==
    \* completed games, with a date in the format or not
    { Event(AllKeys, "STATUS_FINAL", d, 0) : d \in GoodDates \cup BadDates }
    \* games not completed: their date is in the format or not
    \cup { Event(AllKeys, "STATUS_SCHEDULED", d, 0) :
              d \in {DateText(2024, 1, 7, 21, 15, "Z"),
                     DateText(2024, 1, 14, 18, 0, ":00Z")} }
    \* a game without a status
    \cup { Event({"competitions", "date", "id"}, "", DateText(2024, 1, 7, 21, 15, "Z"), 0) }
    \* responses of another shape
    \cup { Event({}, "", NoDate, 0),
           Event({"competitions", "status", "date", "id"}, "",
                 DateText(2024, 1, 7, 18, 0, "Z"), 0),
           Event(AllKeys \ {"date"}, "STATUS_FINAL", NoDate, 0),
           Event(AllKeys \ {"id"}, "STATUS_FINAL", DateText(2024, 1, 7, 18, 0, "Z"), 0) }

GameId(i) == 401000 + i

Schedules ==
    { [has_events |-> FALSE, events |-> <<>>] } \cup
    UNION { { [has_events |-> TRUE,
               events |-> [i \in 1..n |-> [shape[i] EXCEPT !.id = GameId(i)]]] :
                 shape \in [1..n -> EventShapes] } : n \in 0..MaxEvents }

\* Every key read with .get(): an event lacking one is passed over.
ScanEvent_Tolerant(e) ==
    IF "competitions" \notin e.keys
    THEN [exc |-> "", parsed |-> FALSE, appended |-> FALSE]
    ELSE IF "status" \notin e.keys
    THEN [exc |-> "", parsed |-> FALSE, appended |-> FALSE]
    ELSE IF "status.type.name" \notin e.keys
    THEN [exc |-> "", parsed |-> FALSE, appended |-> FALSE]
    ELSE IF e.name # "STATUS_FINAL"
    THEN [exc |-> "", parsed |-> FALSE, appended |-> FALSE]
    ELSE IF "date" \notin e.keys
    THEN [exc |-> "", parsed |-> FALSE, appended |-> FALSE]
    ELSE IF ~Parses(e.date)
    THEN [exc |-> "ValueError", parsed |-> TRUE, appended |-> FALSE]
    ELSE IF "id" \notin e.keys
    THEN [exc |-> "", parsed |-> TRUE, appended |-> FALSE]
    ELSE [exc |-> "", parsed |-> TRUE, appended |-> TRUE]

\* An unparsable date skipped instead of raised.
ScanEvent_SkipUnparsable(e) ==
    IF "competitions" \notin e.keys
    THEN [exc |-> "KeyError", parsed |-> FALSE, appended |-> FALSE]
    ELSE IF "status" \notin e.keys
    THEN [exc |-> "", parsed |-> FALSE, appended |-> FALSE]
    ELSE IF "status.type.name" \notin e.keys
    THEN [exc |-> "KeyError", parsed |-> FALSE, appended |-> FALSE]
    ELSE IF e.name # "STATUS_FINAL"
    THEN [exc |-> "", parsed |-> FALSE, appended |-> FALSE]
    ELSE IF "date" \notin e.keys
    THEN [exc |-> "KeyError", parsed |-> FALSE, appended |-> FALSE]
    ELSE IF ~Parses(e.date)
    THEN [exc |-> "", parsed |-> TRUE, appended |-> FALSE]
    ELSE IF "id" \notin e.keys
    THEN [exc |-> "KeyError", parsed |-> TRUE, appended |-> FALSE]
    ELSE [exc |-> "", parsed |-> TRUE, appended |-> TRUE]

\* One pass of the loop body of lines 151-159 over the event at position i.
\* The result tells what the pass raised ("" for nothing), whether it
\* called strptime, and the game it appended (when appended is TRUE).
ScanEvent(e) ==
    IF "competitions" \notin e.keys
    THEN [exc |-> "KeyError", parsed |-> FALSE, appended |-> FALSE]
    ELSE IF "status" \notin e.keys
    THEN [exc |-> "", parsed |-> FALSE, appended |-> FALSE]
    ELSE IF "status.type.name" \notin e.keys
    THEN [exc |-> "KeyError", parsed |-> FALSE, appended |-> FALSE]
    ELSE IF e.name # "STATUS_FINAL"
    THEN [exc |-> "", parsed |-> FALSE, appended |-> FALSE]
    ELSE IF "date" \notin e.keys
    THEN [exc |-> "KeyError", parsed |-> FALSE, appended |-> FALSE]
    ELSE IF ~Parses(e.date)
    THEN [exc |-> "ValueError", parsed |-> TRUE, appended |-> FALSE]
    ELSE IF "id" \notin e.keys
    THEN [exc |-> "KeyError", parsed |-> TRUE, appended |-> FALSE]
    ELSE [exc |-> "", parsed |-> TRUE, appended |-> TRUE]

\* The loop of lines 149-159 from position i on: it stops at the first
\* event that raises.  acc.games is recent_games, acc.parsed the positions
\* whose date was handed to strptime.
RECURSIVE ScanEvents(_, _, _)
ScanEvents(events, i, acc) ==
    IF i > Len(events) THEN acc
    ELSE LET r == ScanEvent(events[i])
             p == IF r.parsed THEN acc.parsed \cup {i} ELSE acc.parsed
         IN  IF r.exc # ""
             THEN [exc |-> r.exc, games |-> acc.games, parsed |-> p]
             ELSE ScanEvents(events, i + 1,
                    [exc |-> "",
                     games |-> IF r.appended
                               THEN Append(acc.games,
                                      [game_id |-> events[i].id,
                                       date |-> strptime(events[i].date)])
                               ELSE acc.games,
                     parsed |-> p])

\* reverse=True forgotten: ascending.
RECURSIVE InsertDesc_Ascending(_, _)
InsertDesc_Ascending(s, g) ==
    IF s = <<>> THEN <<g>>
    ELSE IF DateLess(g.date, Head(s).date) THEN <<g>> \o s
    ELSE <<Head(s)>> \o InsertDesc_Ascending(Tail(s), g)

\* sorted(..., key=date, reverse=True): descending, and stable, so games of
\* equal date keep their order in the list.
RECURSIVE InsertDesc(_, _)
InsertDesc(s, g) ==
    IF s = <<>> THEN <<g>>
    ELSE IF DateLess(Head(s).date, g.date) THEN <<g>> \o s
    ELSE <<Head(s)>> \o InsertDesc(Tail(s), g)

RECURSIVE SortedDesc(_, _)
SortedDesc(games, acc) ==
    IF games = <<>> THEN acc
    ELSE SortedDesc(Tail(games), InsertDesc(acc, Head(games)))

----------------------------------------------------------------------------
(* HTTP.  requests.get either fails on the network (ConnectionError, a     *)
(* RequestException) or yields a response with a status code;              *)
(* raise_for_status raises HTTPError, a RequestException too, on 4xx/5xx.  *)

HttpStatuses == {200, 404, 503}

Url(endpoint, key) == <<endpoint, key>>

\* The entries of `trace`.  A response records, besides its status, whether
\* its JSON body carries the key the caller reads from it.
Request(url) == [ev |-> "request", url |-> url, status |-> 0, has_key |-> FALSE]
Response(url, status, has_key) ==
    [ev |-> "response", url |-> url, status |-> status, has_key |-> has_key]
Failure(url) == [ev |-> "failure", url |-> url, status |-> 0, has_key |-> FALSE]

\* Only client errors raise.
raise_for_status_4xx(status) ==
    IF status >= 400 /\ status < 500 THEN "Client Error" ELSE ""

\* What raise_for_status raises: "" for nothing, else str(e) of the HTTPError.
raise_for_status(status) ==
    IF status >= 400 /\ status < 600
    THEN (IF status < 500 THEN "Client Error" ELSE "Server Error")
    ELSE ""

ConnectionError == "ConnectionError"

\* What requests.get(url) can do: each possible completion of the request.
Completions(url) ==
    { Failure(url) } \cup
    { Response(url, st, k) : st \in HttpStatuses, k \in BOOLEAN }

TeamIdArgs == {12}

----------------------------------------------------------------------------
(* get_recent_game_stats, lines 129-177 *)

\* The games fetched so far returned on a failure.
except_recent_game_stats_partial(e) == Returned(PyList(game_stats_list))

\* lines 176-177: except requests.exceptions.RequestException as e.
except_recent_game_stats(e) == Returned(ErrorRecord(e))

\* line 144: requests.get(schedule_url) is issued.
Call_get_recent_game_stats ==
    /\ pc = "idle"
    /\ \E t \in TeamIdArgs, n \in -1..MaxCount :
          /\ args' = [team_id |-> t, num_games |-> n]
          /\ trace' = <<Request(Url("schedule", t))>>
    /\ fn' = "get_recent_game_stats"
    /\ pc' = "get_schedule"
    /\ UNCHANGED <<json_data, recent_games, selected, idx, game_stats_list,
                   parsed, outcome>>

\* lines 144-165: the schedule request completes; on success the events are
\* filtered, parsed and sorted, and the loop over the slice begins.
ScheduleCompletes ==
    /\ pc = "get_schedule"
    /\ \E c \in Completions(Url("schedule", args.team_id)), body \in Schedules :
          /\ c.has_key = body.has_events
          /\ trace' = Append(trace, c)
          /\ IF c.ev = "failure"
             THEN /\ outcome' = except_recent_game_stats(ConnectionError)
                  /\ pc' = "done"
                  /\ UNCHANGED <<json_data, recent_games, selected, parsed>>
             ELSE IF raise_for_status(c.status) # ""
             THEN /\ outcome' = except_recent_game_stats(raise_for_status(c.status))
                  /\ pc' = "done"
                  /\ UNCHANGED <<json_data, recent_games, selected, parsed>>
             ELSE LET scan == IF body.has_events
                              THEN ScanEvents(body.events, 1,
                                     [exc |-> "", games |-> <<>>, parsed |-> {}])
                              ELSE [exc |-> "", games |-> <<>>, parsed |-> {}]
                  IN  /\ json_data' = body
                      /\ parsed' = scan.parsed
                      /\ IF scan.exc # ""
                         THEN /\ outcome' = Raised(scan.exc)
                              /\ pc' = "done"
                              /\ UNCHANGED <<recent_games, selected>>
                         ELSE /\ recent_games' = SortedDesc(scan.games, <<>>)
                              /\ selected' = PySlice(recent_games', args.num_games)
                              /\ pc' = "loop"
                              /\ UNCHANGED outcome
    /\ UNCHANGED <<fn, args, idx, game_stats_list>>

\* lines 165-168: the loop takes the next selected game and issues its request.
SummaryRequest ==
    /\ pc = "loop"
    /\ idx <= Len(selected)
    /\ trace' = Append(trace, Request(Url("summary", selected[idx].game_id)))
    /\ pc' = "get_summary"
    /\ UNCHANGED <<fn, args, json_data, recent_games, selected, idx,
                   game_stats_list, parsed, outcome>>

\* lines 168-172: the per-game request completes; c.has_key tells whether
\* the JSON body carries the key 'boxscore'.
SummaryCompletes ==
    /\ pc = "get_summary"
    /\ \E c \in Completions(Url("summary", selected[idx].game_id)) :
          /\ trace' = Append(trace, c)
          /\ IF c.ev = "failure"
             THEN /\ outcome' = except_recent_game_stats(ConnectionError)
                  /\ pc' = "done"
                  /\ UNCHANGED <<idx, game_stats_list>>
             ELSE IF raise_for_status(c.status) # ""
             THEN /\ outcome' = except_recent_game_stats(raise_for_status(c.status))
                  /\ pc' = "done"
                  /\ UNCHANGED <<idx, game_stats_list>>
             ELSE IF ~c.has_key
             THEN /\ outcome' = Raised("KeyError")
                  /\ pc' = "done"
                  /\ UNCHANGED <<idx, game_stats_list>>
             ELSE /\ game_stats_list' =
                        Append(game_stats_list, Payload("boxscore", c.url[2]))
                  /\ idx' = idx + 1
                  /\ pc' = "loop"
                  /\ UNCHANGED outcome
    /\ UNCHANGED <<fn, args, json_data, recent_games, selected, parsed>>

\* line 174: the loop is exhausted and the list is returned.
ReturnGameStats ==
    /\ pc = "loop"
    /\ idx > Len(selected)
    /\ outcome' = Returned(PyList(game_stats_list))
    /\ pc' = "done"
    /\ UNCHANGED <<fn, args, trace, json_data, recent_games, selected, idx,
                   game_stats_list, parsed>>

----------------------------------------------------------------------------
(* get_nfl_team_stats, lines 100-124 *)

\* lines 123-124: except requests.exceptions.RequestException as e.
except_nfl_team_stats(e) == Returned(ErrorRecord(e))

\* line 113: requests.get(url) is issued.
Call_get_nfl_team_stats ==
    /\ pc = "idle"
    /\ \E t \in TeamIdArgs :
          /\ args' = [team_id |-> t]
          /\ trace' = <<Request(Url("statistics", t))>>
    /\ fn' = "get_nfl_team_stats"
    /\ pc' = "get_statistics"
    /\ UNCHANGED <<json_data, recent_games, selected, idx, game_stats_list,
                   parsed, outcome>>

\* lines 113-124: the request completes; c.has_key tells whether the JSON
\* body carries the key 'team'.
StatisticsCompletes ==
    /\ pc = "get_statistics"
    /\ \E c \in Completions(Url("statistics", args.team_id)) :
          /\ trace' = Append(trace, c)
          /\ outcome' =
                IF c.ev = "failure" THEN except_nfl_team_stats(ConnectionError)
                ELSE IF raise_for_status(c.status) # ""
                THEN except_nfl_team_stats(raise_for_status(c.status))
                ELSE IF c.has_key THEN Returned(Payload("team", args.team_id))
                ELSE Returned(ErrorRecord("Team stats not found"))
    /\ pc' = "done"
    /\ UNCHANGED <<fn, args, json_data, recent_games, selected, idx,
                   game_stats_list, parsed>>

----------------------------------------------------------------------------
(* get_player_stats, lines 80-98 *)

Call_get_player_stats ==
    /\ pc = "idle"
    /\ \E p \in {3139477} :
          /\ args' = [player_id |-> p]
          /\ trace' = <<Request(Url("stats", p))>>
    /\ fn' = "get_player_stats"
    /\ pc' = "get_stats"
    /\ UNCHANGED <<json_data, recent_games, selected, idx, game_stats_list,
                   parsed, outcome>>

\* lines 91-98: no try block: a network failure propagates; a status other
\* than 200 is printed and None returned.
StatsCompletes ==
    /\ pc = "get_stats"
    /\ \E c \in Completions(Url("stats", args.player_id)) :
          /\ trace' = Append(trace, c)
          /\ outcome' =
                IF c.ev = "failure" THEN Raised(ConnectionError)
                ELSE IF c.status # 200 THEN Returned(None)
                ELSE Returned(Payload("stats", args.player_id))
    /\ pc' = "done"
    /\ UNCHANGED <<fn, args, json_data, recent_games, selected, idx,
                   game_stats_list, parsed>>

----------------------------------------------------------------------------
(* get_team_players, lines 49-63 *)

\* A position category of the roster JSON, with or without the key 'items'.
Category(has_items, items) == [has_items |-> has_items, items |-> items]

Categories ==
    { Category(FALSE, <<>>), Category(TRUE, <<>>),
      Category(TRUE, <<Payload("player", 1)>>),
      Category(TRUE, <<Payload("player", 2), Payload("player", 3)>>) }

\* The roster JSON, with or without the key 'athletes'.
Rosters ==
    { [has_athletes |-> FALSE, athletes |-> <<>>] } \cup
    UNION { { [has_athletes |-> TRUE, athletes |-> a] : a \in [1..n -> Categories] } :
              n \in 0..2 }

\* category.get('items', [])
ItemsOf(category) == IF category.has_items THEN category.items ELSE <<>>

\* line 62: the items of every category, in order.
RECURSIVE Flatten(_)
Flatten(categories) ==
    IF categories = <<>> THEN <<>>
    ELSE ItemsOf(Head(categories)) \o Flatten(Tail(categories))

\* lines 61-63 on a decoded body.
PlayersOf(body) == Flatten(IF body.has_athletes THEN body.athletes ELSE <<>>)

Call_get_team_players ==
    /\ pc = "idle"
    /\ \E t \in TeamIdArgs :
          /\ args' = [team_id |-> t]
          /\ trace' = <<Request(Url("roster", t))>>
    /\ fn' = "get_team_players"
    /\ pc' = "get_roster"
    /\ UNCHANGED <<json_data, recent_games, selected, idx, game_stats_list,
                   parsed, outcome>>

\* lines 60-63: no try block and no status check: a network failure
\* propagates, any response is decoded.
RosterCompletes ==
    /\ pc = "get_roster"
    /\ \E c \in Completions(Url("roster", args.team_id)), body \in Rosters :
          /\ c.has_key = body.has_athletes
          /\ trace' = Append(trace, c)
          /\ IF c.ev = "failure"
             THEN /\ outcome' = Raised(ConnectionError)
                  /\ UNCHANGED json_data
             ELSE /\ outcome' = Returned(PyList(PlayersOf(body)))
                  /\ json_data' = body
    /\ pc' = "done"
    /\ UNCHANGED <<fn, args, recent_games, selected, idx, game_stats_list, parsed>>

----------------------------------------------------------------------------
(* get_player_id, lines 65-78 *)

\* Texts are sequences of characters.
Alphabet == {"m", "M", "a"}

\* str.lower() on one character, and on a text.
LowerChar(c) == IF c = "M" THEN "m" ELSE IF c = "A" THEN "a" ELSE c
Lower(text) == [i \in 1..Len(text) |-> LowerChar(text[i])]

Names == UNION { [1..n -> Alphabet] : n \in 0..2 }

\* A roster entry, with the keys it carries.
Player(keys, displayName, id) == [keys |-> keys, displayName |-> displayName, id |-> id]

PlayerShapes ==
    { Player({"displayName", "id"}, nm, 0) : nm \in Names }
    \cup { Player({"id"}, <<>>, 0), Player({"displayName"}, <<"m", "a">>, 0) }

PlayerId(i) == 3139000 + i

PlayerLists ==
    UNION { { [i \in 1..n |-> [shape[i] EXCEPT !.id = PlayerId(i)]] :
                shape \in [1..n -> PlayerShapes] } : n \in 0..MaxRoster }

\* lines 76-78 from position i on; falling off the loop returns None.
RECURSIVE get_player_id_from(_, _, _)
get_player_id_from(player_name, team_players, i) ==
    IF i > Len(team_players) THEN Returned(None)
    ELSE LET player == team_players[i] IN
         IF "displayName" \notin player.keys THEN Raised("KeyError")
         ELSE IF Lower(player.displayName) = Lower(player_name)
         THEN (IF "id" \notin player.keys THEN Raised("KeyError")
               ELSE Returned(PyInt(player.id)))
         ELSE get_player_id_from(player_name, team_players, i + 1)

\* The display name compared as it is written.
RECURSIVE get_player_id_exact_from(_, _, _)
get_player_id_exact_from(player_name, team_players, i) ==
    IF i > Len(team_players) THEN Returned(None)
    ELSE LET player == team_players[i] IN
         IF "displayName" \notin player.keys THEN Raised("KeyError")
         ELSE IF player.displayName = Lower(player_name)
         THEN (IF "id" \notin player.keys THEN Raised("KeyError")
               ELSE Returned(PyInt(player.id)))
         ELSE get_player_id_exact_from(player_name, team_players, i + 1)

get_player_id_exact(player_name, team_players) ==
    get_player_id_exact_from(player_name, team_players, 1)

get_player_id(player_name, team_players) ==
    get_player_id_from(player_name, team_players, 1)

Call_get_player_id ==
    /\ pc = "idle"
    /\ \E nm \in Names, players \in PlayerLists :
          /\ args' = [player_name |-> nm, team_players |-> players]
          /\ outcome' = get_player_id(nm, players)
    /\ fn' = "get_player_id"
    /\ pc' = "done"
    /\ UNCHANGED <<trace, json_data, recent_games, selected, idx, game_stats_list,
                   parsed>>

----------------------------------------------------------------------------
(* get_team_id, lines 3-47 *)

Call_get_team_id ==
    /\ pc = "idle"
    /\ \E a \in Abbreviations :
          /\ args' = [team_abbreviation |-> a]
          /\ outcome' = get_team_id(a)
    /\ fn' = "get_team_id"
    /\ pc' = "done"
    /\ UNCHANGED <<trace, json_data, recent_games, selected, idx, game_stats_list,
                   parsed>>

----------------------------------------------------------------------------
(* The caller: one call of one function. *)

Init ==
    /\ pc = "idle"
    /\ fn = "none"
    /\ args = [none |-> TRUE]
    /\ trace = <<>>
    /\ json_data = [none |-> TRUE]
    /\ recent_games = <<>>
    /\ selected = <<>>
    /\ idx = 1
    /\ game_stats_list = <<>>
    /\ parsed = {}
    /\ outcome = Running

Next ==
    \/ Call_get_team_id
    \/ Call_get_player_id
    \/ Call_get_team_players
    \/ RosterCompletes
    \/ Call_get_player_stats
    \/ StatsCompletes
    \/ Call_get_nfl_team_stats
    \/ StatisticsCompletes
    \/ Call_get_recent_game_stats
    \/ ScheduleCompletes
    \/ SummaryRequest
    \/ SummaryCompletes
    \/ ReturnGameStats

Spec == Init /\ [][Next]_vars

----------------------------------------------------------------------------
(* Vocabulary of the properties. *)

Done(f) == pc = "done" /\ fn = f

\* The requests of the trace to an endpoint, in order.
RequestsTo(endpoint) ==
    SelectSeq(trace, LAMBDA m : m.ev = "request" /\ m.url[1] = endpoint)

\* A completion that is a network failure or carries a non-success status.
Unsuccessful(m) == m.ev = "failure" \/ (m.ev = "response" /\ m.status # 200)

AllRequestsSucceeded ==
    /\ Len(trace) >= 2
    /\ \A k \in DOMAIN trace : ~Unsuccessful(trace[k])

\* The schedule request was answered with status 200.
ScheduleFetched ==
    /\ fn = "get_recent_game_stats"
    /\ Len(trace) >= 2
    /\ trace[2].ev = "response" /\ trace[2].status = 200

Events == IF ScheduleFetched /\ json_data.has_events THEN json_data.events ELSE <<>>

\* An event whose status name is STATUS_FINAL.
IsFinal(e) ==
    /\ {"competitions", "status", "status.type.name"} \subseteq e.keys
    /\ e.name = "STATUS_FINAL"

\* The events whose status name is STATUS_FINAL.
FinalPositions == { i \in DOMAIN Events : IsFinal(Events[i]) }

\* An event of the documented shape: a competition that has no status, or a
\* status name and, when the game is final, an id and a date in the format.
Usable(e) ==
    /\ "competitions" \in e.keys
    /\ "status" \in e.keys =>
          /\ "status.type.name" \in e.keys
          /\ e.name = "STATUS_FINAL" =>
                {"date", "id"} \subseteq e.keys /\ Parses(e.date)

ScheduleUsable == \A i \in DOMAIN Events : Usable(Events[i])

\* Kickoff times compared by the minute they name: a before b.
Stamp(t) == (((t[1] * 12 + t[2]) * 31 + t[3]) * 24 + t[4]) * 60 + t[5]
Before(a, b) == Stamp(a) < Stamp(b)

\* The position in the schedule of the event with a given id.
PositionOf(id) == CHOOSE i \in DOMAIN Events : Events[i].id = id
Kickoff(id) == strptime(Events[PositionOf(id)].date)

ReturnedList == outcome.kind = "return" /\ outcome.value.type = "list"
ReturnedError ==
    /\ outcome.kind = "return"
    /\ outcome.value.type = "dict"
    /\ DOMAIN outcome.value = {"type", "error"}

\* The ids of the games whose summary was requested, in order of request.
RequestedIds ==
    [k \in DOMAIN RequestsTo("summary") |-> RequestsTo("summary")[k].url[2]]

----------------------------------------------------------------------------
(* C1: when every request of a get_recent_game_stats call succeeds (the     *)
(* schedule being of the documented shape and every summary carrying a     *)
(* boxscore) and num_games >= 0, the call returns the boxscores of final   *)
(* events only, each event at most once, most recent kickoff first, and    *)
(* every final event left out kicked off no later than every event         *)
(* returned: the result is the first num_games of the final events sorted  *)
(* by date descending.                                                     *)

C1_Case ==
    /\ Done("get_recent_game_stats")
    /\ args.num_games >= 0
    /\ AllRequestsSucceeded
    /\ ScheduleUsable
    /\ \A k \in DOMAIN trace :
          (trace[k].ev = "response" /\ trace[k].url[1] = "summary") => trace[k].has_key

C1_RecentGamesSelected ==
    C1_Case =>
       /\ ReturnedList
       /\ LET r == outcome.value.items IN
          /\ Len(r) = Min(args.num_games, Cardinality(FinalPositions))
          /\ \A k \in DOMAIN r :
                /\ r[k].payload = "boxscore"
                /\ \E i \in FinalPositions : Events[i].id = r[k].of
          /\ \A j, k \in DOMAIN r : j < k =>
                /\ r[j].of # r[k].of
                /\ ~Before(Kickoff(r[j].of), Kickoff(r[k].of))
          /\ \A i \in FinalPositions :
                (\A k \in DOMAIN r : r[k].of # Events[i].id) =>
                   \A k \in DOMAIN r :
                      ~Before(Kickoff(r[k].of), Kickoff(Events[i].id))

\* Of two final games the later one, which comes second in the schedule,
\* is the one returned, beside an event that is not final.
C1_Witness ==
    /\ C1_Case
    /\ args.num_games = 1
    /\ Cardinality(FinalPositions) = 2
    /\ Len(outcome.value.items) = 1
    /\ \E i \in FinalPositions :
          /\ Events[i].id < outcome.value.items[1].of
          /\ Before(Kickoff(Events[i].id), Kickoff(outcome.value.items[1].of))
    /\ \E i \in DOMAIN Events : ~IsFinal(Events[i])

----------------------------------------------------------------------------
(* C2: a get_recent_game_stats call with num_games >= 0 that returns a     *)
(* list returns min(num_games, number of final events) boxscores, never    *)
(* more than num_games; with fewer final events than requested and every   *)
(* request succeeding it still returns a list, all the final events long.  *)

C2_LengthIsMin ==
    (Done("get_recent_game_stats") /\ args.num_games >= 0) =>
       /\ ReturnedList =>
             /\ Len(outcome.value.items) =
                   Min(args.num_games, Cardinality(FinalPositions))
             /\ Len(outcome.value.items) <= args.num_games
       /\ (C1_Case /\ Cardinality(FinalPositions) < args.num_games) =>
             /\ ReturnedList
             /\ Len(outcome.value.items) = Cardinality(FinalPositions)

\* Two games are asked for and the schedule holds three events, one final.
C2_Witness ==
    /\ Done("get_recent_game_stats")
    /\ ReturnedList
    /\ args.num_games = 2
    /\ Len(Events) = 3
    /\ Cardinality(FinalPositions) = 1
    /\ Len(outcome.value.items) = 1

----------------------------------------------------------------------------
(* C3, as stated: with num_games = 0 and the schedule fetched, the call    *)
(* returns the empty list after the schedule request alone, whatever the   *)
(* schedule contains.                                                      *)

C3_Original ==
    (Done("get_recent_game_stats") /\ args.num_games = 0 /\ ScheduleFetched) =>
       /\ outcome = Returned(PyList(<<>>))
       /\ Len(trace) = 2

(* C3, amended: with num_games = 0 no per-game request is ever issued,     *)
(* whatever the schedule contains, and the call returns the empty list     *)
(* whenever the schedule was fetched and its events are of the documented  *)
(* shape (a final event with an unparsable date or a missing key makes the *)
(* call raise instead).                                                    *)

C3_ZeroCount ==
    (fn = "get_recent_game_stats" /\ args.num_games = 0) =>
       /\ Len(RequestsTo("summary")) = 0
       /\ Len(trace) <= 2
       /\ (pc = "done" /\ ScheduleFetched /\ ScheduleUsable) =>
             outcome = Returned(PyList(<<>>))

\* No game is asked for of a schedule that holds two final games.
C3_Witness ==
    /\ Done("get_recent_game_stats")
    /\ args.num_games = 0
    /\ ScheduleFetched
    /\ Cardinality(FinalPositions) >= 2
    /\ outcome = Returned(PyList(<<>>))

----------------------------------------------------------------------------
(* C4: in get_nfl_team_stats and in get_recent_game_stats a network        *)
(* failure or a non-success status of any request ends the call by         *)
(* returning a record that carries an error message, never by raising;     *)
(* get_nfl_team_stats returns such a record too for a 200 response         *)
(* without the key 'team'.                                                 *)

C4_FailuresAreRecords ==
    (pc = "done" /\ fn \in {"get_nfl_team_stats", "get_recent_game_stats"}) =>
       /\ (\E k \in DOMAIN trace : Unsuccessful(trace[k])) => ReturnedError
       /\ (fn = "get_nfl_team_stats" /\ ~Unsuccessful(trace[2])) =>
             IF trace[2].has_key
             THEN outcome = Returned(Payload("team", args.team_id))
             ELSE outcome = Returned(ErrorRecord("Team stats not found"))

\* A per-game request is answered with a server error.
C4_Witness ==
    /\ Done("get_recent_game_stats")
    /\ Len(trace) = 4
    /\ trace[4].ev = "response" /\ trace[4].status = 503
    /\ ReturnedError

----------------------------------------------------------------------------
(* C5: once a per-game request of get_recent_game_stats fails, the call is *)
(* over: the failure is the last entry of the trace (no later request, no  *)
(* retry), the value returned is the error record alone, with none of the  *)
(* boxscores fetched before, and no game was requested twice.              *)

C5_AllOrNothing ==
    fn = "get_recent_game_stats" =>
       \A k \in DOMAIN trace :
          (Unsuccessful(trace[k]) /\ trace[k].url[1] = "summary") =>
             /\ k = Len(trace)
             /\ pc = "done"
             /\ ReturnedError
             /\ Len(RequestedIds) = Len(game_stats_list) + 1
             /\ \A i, j \in DOMAIN RequestedIds :
                   i # j => RequestedIds[i] # RequestedIds[j]

\* The second per-game request fails after the first one succeeded.
C5_Witness ==
    /\ Done("get_recent_game_stats")
    /\ Len(trace) = 6
    /\ Unsuccessful(trace[6])
    /\ Len(game_stats_list) = 1
    /\ ReturnedError

----------------------------------------------------------------------------
(* C6: get_team_id returns the id the table gives for each of its 32       *)
(* abbreviations (ARI is 22, KC is 12, ...), and returns None, raising     *)
(* nothing, for every text that is no key of the table.                    *)

C6_TeamIdLookup ==
    Done("get_team_id") =>
       LET a == args.team_abbreviation IN
       /\ Cardinality(DOMAIN TEAM_IDS) = 32
       /\ outcome.kind = "return"
       /\ a \in DOMAIN TEAM_IDS =>
             /\ outcome.value = PyInt(TEAM_IDS[a])
             /\ outcome.value.n \in 1..34
       /\ a \notin DOMAIN TEAM_IDS => outcome.value = None
       /\ a = "ARI" => outcome.value = PyInt(22)
       /\ a = "KC" => outcome.value = PyInt(12)

\* A known abbreviation in lower case is no key of the table.
C6_Witness ==
    /\ Done("get_team_id")
    /\ args.team_abbreviation = "kc"
    /\ outcome = Returned(None)

----------------------------------------------------------------------------
(* C7: get_player_id gives the same result for any two names that differ   *)
(* only in letter case; on a roster whose entries all carry a display name *)
(* and an id that result is the id of the first entry whose display name   *)
(* equals the name up to letter case, and None when there is no such       *)
(* entry.                                                                  *)

CasePairs == { {"m", "M"}, {"a", "A"} }

\* Two texts that are equal up to the case of their letters.
SameUpToCase(a, b) ==
    /\ Len(a) = Len(b)
    /\ \A i \in 1..Len(a) : a[i] = b[i] \/ {a[i], b[i]} \in CasePairs

C7_CaseInsensitive ==
    Done("get_player_id") =>
       LET name == args.player_name
           roster == args.team_players
           matches == { i \in DOMAIN roster :
                          SameUpToCase(roster[i].displayName, name) }
       IN
       /\ \A other \in Names :
             SameUpToCase(other, name) => get_player_id(other, roster) = outcome
       /\ (\A i \in DOMAIN roster : roster[i].keys = {"displayName", "id"}) =>
             IF matches = {} THEN outcome = Returned(None)
             ELSE \E i \in matches :
                     /\ \A j \in matches : i <= j
                     /\ outcome = Returned(PyInt(roster[i].id))

\* "Ma" is looked up in a roster whose second entry is "ma" and whose first
\* entry is another player.
C7_Witness ==
    /\ Done("get_player_id")
    /\ args.player_name = <<"M", "a">>
    /\ Len(args.team_players) = 2
    /\ args.team_players[1].displayName = <<"a">>
    /\ args.team_players[2].displayName = <<"m", "a">>
    /\ outcome = Returned(PyInt(PlayerId(2)))

----------------------------------------------------------------------------
(* C8, as stated: a response that lacks one of the named keys never fails  *)
(* the call: no call ends in a KeyError.                                   *)

C8_Original == pc = "done" => outcome # Raised("KeyError")

(* C8, amended: only the keys 'events', 'athletes', 'items' and a game's   *)
(* 'status' are treated as absent/empty when missing (no events, no        *)
(* players, a game that is not final).  A missing 'competitions' or        *)
(* status type name, a missing 'date' or 'id' of a final event, a missing  *)
(* 'boxscore', and a missing 'displayName' (or 'id' of the matching        *)
(* entry) of a roster entry reached by the lookup make the call raise      *)
(* KeyError to the caller.                                                 *)

\* An event whose pass of the loop reads a key that is not there.
MissesKey(e) ==
    \/ "competitions" \notin e.keys
    \/ "status" \in e.keys /\ "status.type.name" \notin e.keys
    \/ IsFinal(e) /\ "date" \notin e.keys
    \/ IsFinal(e) /\ "date" \in e.keys /\ Parses(e.date) /\ "id" \notin e.keys

\* The items of the categories that carry the key 'items', in order.
ItemsPresent(athletes) ==
    LET cats == SelectSeq(athletes, LAMBDA c : c.has_items) IN
    IF Len(cats) = 0 THEN <<>>
    ELSE IF Len(cats) = 1 THEN cats[1].items
    ELSE cats[1].items \o cats[2].items

C8_MissingKeys ==
    /\ (Done("get_team_players") /\ trace[2].ev = "response") =>
          outcome = Returned(PyList(IF json_data.has_athletes
                                    THEN ItemsPresent(json_data.athletes)
                                    ELSE <<>>))
    /\ (Done("get_recent_game_stats") /\ ScheduleFetched) =>
          /\ ~json_data.has_events => outcome = Returned(PyList(<<>>))
          /\ \A i \in DOMAIN Events :
                ("status" \notin Events[i].keys /\ "competitions" \in Events[i].keys) =>
                   /\ i \notin parsed
                   /\ \A k \in DOMAIN RequestedIds : RequestedIds[k] # Events[i].id
          /\ \A i \in DOMAIN Events :
                (MissesKey(Events[i]) /\ \A j \in 1..(i - 1) : Usable(Events[j])) =>
                   outcome = Raised("KeyError") /\ Len(trace) = 2
          /\ (trace[Len(trace)].ev = "response" /\ trace[Len(trace)].status = 200
                /\ trace[Len(trace)].url[1] = "summary" /\ ~trace[Len(trace)].has_key) =>
                   outcome = Raised("KeyError")
    /\ Done("get_player_id") =>
          LET name == args.player_name
              roster == args.team_players
              reached(i) == \A j \in 1..(i - 1) :
                               /\ "displayName" \in roster[j].keys
                               /\ ~SameUpToCase(roster[j].displayName, name)
          IN  \A i \in DOMAIN roster :
                 (reached(i) /\
                    \/ "displayName" \notin roster[i].keys
                    \/ /\ SameUpToCase(roster[i].displayName, name)
                       /\ "id" \notin roster[i].keys) =>
                    outcome = Raised("KeyError")

\* The schedule's first event has no status and is passed over; its second
\* event has no 'competitions' and ends the call.
C8_Witness ==
    /\ Done("get_recent_game_stats")
    /\ ScheduleFetched
    /\ Len(Events) >= 2
    /\ "status" \notin Events[1].keys /\ "competitions" \in Events[1].keys
    /\ "competitions" \notin Events[2].keys
    /\ outcome = Raised("KeyError")

----------------------------------------------------------------------------
(* C9: the requests of a get_recent_game_stats call are strictly           *)
(* sequential: the schedule request comes first and is the only one of its *)
(* kind, every request is followed by its own completion before the next   *)
(* request, the per-game requests follow `selected` in its order (final    *)
(* events, most recent first, none twice), and a call that returns the     *)
(* list has issued one per-game request per selected game.                 *)

C9_SequentialTrace ==
    fn = "get_recent_game_stats" =>
       /\ Len(trace) >= 1
       /\ trace[1] = Request(Url("schedule", args.team_id))
       /\ Len(RequestsTo("schedule")) = 1
       /\ \A k \in DOMAIN trace :
             IF k % 2 = 1
             THEN /\ trace[k].ev = "request"
                  /\ k > 1 => trace[k].url[1] = "summary"
                  /\ k < Len(trace) \/ pc \in {"get_schedule", "get_summary"}
             ELSE /\ trace[k].ev # "request"
                  /\ trace[k].url = trace[k - 1].url
       /\ Len(RequestedIds) <= Len(selected)
       /\ \A k \in DOMAIN RequestedIds :
             /\ RequestedIds[k] = selected[k].game_id
             /\ \E i \in FinalPositions : Events[i].id = RequestedIds[k]
       /\ \A j, k \in DOMAIN RequestedIds : j < k =>
             /\ RequestedIds[j] # RequestedIds[k]
             /\ ~Before(Kickoff(RequestedIds[j]), Kickoff(RequestedIds[k]))
       /\ (pc = "done" /\ ReturnedList) =>
             /\ Len(RequestedIds) = Len(selected)
             /\ Len(RequestedIds) = Len(outcome.value.items)
             /\ Len(trace) = 2 + 2 * Len(selected)

\* Two games were fetched, the later one first although it comes later in
\* the schedule.
C9_Witness ==
    /\ Done("get_recent_game_stats")
    /\ ReturnedList
    /\ Len(trace) = 6
    /\ Len(RequestedIds) = 2
    /\ RequestedIds[1] > RequestedIds[2]
    /\ Before(Kickoff(RequestedIds[2]), Kickoff(RequestedIds[1]))

----------------------------------------------------------------------------
(* C10: a final event whose date is not in the format makes the call raise *)
(* (ValueError when every other key is there; never the error record, and  *)
(* the event is not skipped) before any per-game request, whatever         *)
(* num_games; dates of events that are not final are never parsed; events  *)
(* without a status are left out without an error.                         *)

HasUnparsableFinal ==
    \E i \in FinalPositions : "date" \in Events[i].keys /\ ~Parses(Events[i].date)

\* Usable but for the dates of final events.
UsableButDate(e) ==
    \/ Usable(e)
    \/ /\ AllKeys \subseteq e.keys
       /\ e.name = "STATUS_FINAL"
       /\ ~Parses(e.date)

C10_ParseFailureIsFatal ==
    fn = "get_recent_game_stats" =>
       /\ parsed \subseteq FinalPositions
       /\ \A k \in DOMAIN RequestedIds :
             "status" \in Events[PositionOf(RequestedIds[k])].keys
       /\ (pc = "done" /\ ScheduleFetched /\ HasUnparsableFinal) =>
             /\ outcome.kind = "raise"
             /\ Len(trace) = 2
             /\ (\A i \in DOMAIN Events : UsableButDate(Events[i])) =>
                   outcome = Raised("ValueError")
       /\ (pc = "done" /\ ScheduleFetched /\ ScheduleUsable) =>
             ~(outcome.kind = "raise" /\ Len(trace) = 2)

\* No game is asked for; the schedule holds an event without a status, a
\* scheduled event and a final event, the latter two with unparsable dates.
C10_Witness ==
    /\ Done("get_recent_game_stats")
    /\ args.num_games = 0
    /\ Len(Events) = 3
    /\ "status" \notin Events[1].keys /\ "competitions" \in Events[1].keys
    /\ Events[2].name = "STATUS_SCHEDULED" /\ ~Parses(Events[2].date)
    /\ IsFinal(Events[3]) /\ "date" \in Events[3].keys /\ ~Parses(Events[3].date)
    /\ parsed = {3}
    /\ outcome = Raised("ValueError")
    /\ Len(trace) = 2

====
